---- MODULE Spec2Model ----
(***************************************************************************)
(* Model of the prediction-market arbitrage pipeline:                      *)
(*   kalshi_api.py / polymarket_api.py  (credential check, _request_json   *)
(*   retry loop, record normalization), filters.py (prefilter_markets,     *)
(*   validate_matches), llm_client.py, arb_math.py and pipeline.py.        *)
(*                                                                         *)
(* Units.  Times are whole hours.  Raw price values are given in           *)
(* hundredths (raw 0.4 is 40, raw 1 is 100, raw 40 is 4000); normalized    *)
(* prices are in ten-thousandths (0.4 is 4000, 1.0 is 10000), so that the   *)
(* division by 100 of _normalize_price is exact.                           *)
(***************************************************************************)
EXTENDS Integers, Sequences, FiniteSets, TLC

VARIABLES
    pc,                    \* position inside run_pipeline
    env,                   \* env[v]: value of <VENUE>_API_KEY in the environment
    attempt,               \* attempt[v]: loop variable of _request_json
    requests,              \* requests[v]: client.get calls made so far
    sleeps,                \* sleeps[v]: the time.sleep durations, in order
    n429,                  \* n429[v]: 429 responses received so far
    last,                  \* last[v]: status of the latest response (-1: none yet)
    resp,                  \* raw_markets of the response being normalized
    kalshi_markets,        \* run_pipeline locals
    polymarket_markets,
    candidate_pairs,
    llm_results,
    validated,
    opportunities,
    error,                 \* the exception that left run_pipeline, if any
    stages,                \* the calls run_pipeline has made so far, in order
    max_resolution_delta,  \* config.thresholds.max_resolution_delta (hours)
    min_edge_bps           \* config.thresholds.min_edge_bps

vars == <<pc, env, attempt, requests, sleeps, n429, last, resp, kalshi_markets,
          polymarket_markets, candidate_pairs, llm_results, validated,
          opportunities, error, stages, max_resolution_delta, min_edge_bps>>

Venues == {"kalshi", "polymarket"}

\* Python's None, for string-valued fields.
NoneStr == "<None>"

\* ------------------------------------------------------------------------
\* Bounds of the model
\* ------------------------------------------------------------------------

\* Longest response body (number of raw records) in a pipeline run.
MaxRecords == 2

\* ------------------------------------------------------------------------
\* Small helpers for Python semantics
\* ------------------------------------------------------------------------

\* str.lower() on the strings the model uses.
Lower(s) ==
    CASE s = "BTC" -> "btc"
      [] s = "Btc" -> "btc"
      [] s = "ETH" -> "eth"
      [] s = "Binary" -> "binary"
      [] s = "BINARY" -> "binary"
      [] s = "Yes" -> "yes"
      [] s = "YES" -> "yes"
      [] s = "No" -> "no"
      [] s = "Long" -> "long"
      [] s = "True" -> "true"
      [] s = "Trading" -> "trading"
      [] s = "OPEN" -> "open"
      [] s = "Open" -> "open"
      [] s = "Active" -> "active"
      [] s = "LIVE" -> "live"
      [] s = "Live" -> "live"
      [] s = "Closed" -> "closed"
      [] OTHER -> s

\* Truthiness of an optional string: None and "" are falsy.
TruthyStr(s) == s # NoneStr /\ s # ""

\* `a or b` on optional strings.
OrStr(a, b) == IF TruthyStr(a) THEN a ELSE b

\* Truthiness of an optional boolean given as "<None>", "true" or "false".
TruthyTri(b) == b = "true"

Abs(x) == IF x < 0 THEN -x ELSE x

\* All sequences over S of length at most n.
SeqUpTo(S, n) == UNION {[1..k -> S] : k \in 0..n}

\* ------------------------------------------------------------------------
\* Raw values found in a venue's JSON
\* ------------------------------------------------------------------------

\* A raw datetime field: absent/None, a number (epoch), an ISO string, an
\* unparsable string, or a value of another type (a list, a dict).
RawTime(kind, t) == [kind |-> kind, t |-> t]
NoTime == RawTime("none", 0)

\* Truthiness of a raw datetime field: None, the number 0 and "" are falsy.
TruthyTime(x) ==
    CASE x.kind = "none" -> FALSE
      [] x.kind = "num" -> x.t # 0
      [] x.kind = "empty" -> FALSE
      [] OTHER -> TRUE

OrTime(a, b) == IF TruthyTime(a) THEN a ELSE b

\* A raw price field: absent/None, a number (in hundredths), or a value
\* float() rejects.
RawPrice(kind, c) == [kind |-> kind, c |-> c]
NoRawPrice == RawPrice("none", 0)

\* Truthiness of a raw price field: None and the number 0 are falsy.
TruthyPrice(x) ==
    CASE x.kind = "none" -> FALSE
      [] x.kind = "num" -> x.c # 0
      [] OTHER -> TRUE

OrPrice(a, b) == IF TruthyPrice(a) THEN a ELSE b

\* Optional[float]: a normalized price or None.
SomePrice(p) == [has |-> TRUE, p |-> p]
NonePrice == [has |-> FALSE, p |-> 0]

\* The result of a call that may raise.
Ok(v) == [ok |-> TRUE, val |-> v, kind |-> "none"]
Raise(kind) == [ok |-> FALSE, val |-> 0, kind |-> kind]

\* ------------------------------------------------------------------------
\* models.py
\* ------------------------------------------------------------------------

\* The Market dataclass (question and settlement_description carry no
\* behaviour in the pipeline and are left out).
Market(platform, id, t, yes, no, entity, bin, act) ==
    [platform |-> platform, market_id |-> id, resolution_time |-> t,
     yes_price |-> yes, no_price |-> no, underlying_entity |-> entity,
     is_binary |-> bin, is_active |-> act]

MarketPair(k, p) == [kalshi_market |-> k, polymarket_market |-> p]

LLMSemanticMatch(ev, sem, conf, risks) ==
    [same_event |-> ev, same_outcome_semantics |-> sem, confidence |-> conf,
     risks |-> risks]

ValidatedMatch(pair, m, passed, issues) ==
    [pair |-> pair, llm_match |-> m, validation_passed |-> passed,
     validation_issues |-> issues]

ArbitrageOpportunity(pair, edge, risks) ==
    [pair |-> pair, edge_bps |-> edge, risks |-> risks]

\* ------------------------------------------------------------------------
\* kalshi_api.py: normalization
\* ------------------------------------------------------------------------

\* A raw Kalshi record.  Of each `a or b or ...` chain of keys the model
\* keeps the first key and one fallback; the other keys are absent.
KalshiRaw(id, st, res, act, ct, ed, yb, yp, nb, ty, outs, und) ==
    [id |-> id, ticker |-> NoneStr, status |-> st, is_resolved |-> res,
     active |-> act, close_time |-> ct, end_date |-> ed,
     yes_bid |-> yb, yes_price |-> yp, no_bid |-> nb, type |-> ty,
     outcomes |-> outs, underlying |-> und]

Kalshi_parse_datetime(raw) ==
    CASE raw.kind = "none" -> Raise("data_shape")
      [] raw.kind = "num" -> Ok(raw.t)
      [] raw.kind = "iso" -> Ok(raw.t)
      [] OTHER -> Raise("data_shape")

Kalshi_is_active(status, is_resolved) ==
    IF TruthyTri(is_resolved) THEN FALSE
    ELSE Lower(OrStr(status, "")) \in {"trading", "open", "active"}

Kalshi_is_binary(market) ==
    IF market.type # NoneStr /\ Lower(market.type) = "binary" THEN TRUE
    ELSE IF market.outcomes # <<>> THEN Len(market.outcomes) = 2
    ELSE FALSE

Kalshi_normalize_price(value) ==
    CASE value.kind = "none" -> NonePrice
      [] value.kind = "num" ->
            SomePrice(IF value.c > 100 THEN value.c ELSE value.c * 100)
      [] OTHER -> NonePrice

Kalshi_extract_prices(market) ==
    LET yes == Kalshi_normalize_price(
                   OrPrice(market.yes_bid, OrPrice(market.yes_price, NoRawPrice)))
        no == Kalshi_normalize_price(OrPrice(market.no_bid, NoRawPrice))
    IN  IF ~yes.has /\ no.has THEN <<SomePrice(10000 - no.p), no>>
        ELSE IF ~no.has /\ yes.has THEN <<yes, SomePrice(10000 - yes.p)>>
        ELSE <<yes, no>>

\* _normalize_market: a Market, None, or the exception _parse_datetime raised.
Kalshi_normalize_market(raw) ==
    LET is_active == Kalshi_is_active(raw.status, raw.is_resolved)
        resolution == Kalshi_parse_datetime(OrTime(raw.close_time, raw.end_date))
        prices == Kalshi_extract_prices(raw)
        mid == OrStr(raw.id, raw.ticker)
    IN  IF ~resolution.ok THEN [tag |-> "raise", kind |-> resolution.kind]
        ELSE IF ~prices[1].has \/ ~prices[2].has THEN [tag |-> "none"]
        ELSE [tag |-> "market",
              m |-> Market("kalshi", IF mid = NoneStr THEN "None" ELSE mid,
                           resolution.val, prices[1].p, prices[2].p,
                           OrStr(raw.underlying, raw.ticker),
                           Kalshi_is_binary(raw), is_active)]

\* Variant: the loop does not drop inactive markets.
RECURSIVE Kalshi_fetch_loop_keeps_inactive(_, _)
Kalshi_fetch_loop_keeps_inactive(raws, markets) ==
    IF raws = <<>> THEN Ok(markets)
    ELSE LET normalized == Kalshi_normalize_market(Head(raws))
         IN  IF normalized.tag = "raise" THEN Raise(normalized.kind)
             ELSE IF normalized.tag = "none"
                  THEN Kalshi_fetch_loop_keeps_inactive(Tail(raws), markets)
             ELSE IF ~normalized.m.is_binary
                  THEN Kalshi_fetch_loop_keeps_inactive(Tail(raws), markets)
             ELSE Kalshi_fetch_loop_keeps_inactive(Tail(raws),
                                                   Append(markets, normalized.m))

\* The loop of fetch_open_binary_markets over raw_markets.
RECURSIVE Kalshi_fetch_loop(_, _)
Kalshi_fetch_loop(raws, markets) ==
    IF raws = <<>> THEN Ok(markets)
    ELSE LET normalized == Kalshi_normalize_market(Head(raws))
         IN  IF normalized.tag = "raise" THEN Raise(normalized.kind)
             ELSE IF normalized.tag = "none"
                  THEN Kalshi_fetch_loop(Tail(raws), markets)
             ELSE IF ~normalized.m.is_binary
                  THEN Kalshi_fetch_loop(Tail(raws), markets)
             ELSE IF ~normalized.m.is_active
                  THEN Kalshi_fetch_loop(Tail(raws), markets)
             ELSE Kalshi_fetch_loop(Tail(raws), Append(markets, normalized.m))

\* ------------------------------------------------------------------------
\* polymarket_api.py: normalization
\* ------------------------------------------------------------------------

PolyRaw(id, res, cl, st, act, outs, prices, ed, ct, und) ==
    [id |-> id, slug |-> NoneStr, resolved |-> res, closed |-> cl,
     status |-> st, active |-> act, outcomes |-> outs,
     outcomePrices |-> prices, endDate |-> ed, close_time |-> ct,
     underlying |-> und]

Polymarket_parse_datetime(raw) ==
    CASE raw.kind = "none" -> Raise("data_shape")
      [] raw.kind = "num" -> Ok(raw.t)
      [] raw.kind = "iso" -> Ok(raw.t)
      [] OTHER -> Raise("data_shape")

Polymarket_is_active(market) ==
    IF TruthyTri(market.resolved) \/ TruthyTri(market.closed) THEN FALSE
    ELSE IF market.active \in {"true", "false"} THEN market.active = "true"
    ELSE Lower(OrStr(market.status, "")) \in {"active", "open", "live"}

Polymarket_is_binary(outcomes) == Len(outcomes) = 2

Polymarket_normalize_price(value) ==
    CASE value.kind = "none" -> NonePrice
      [] value.kind = "num" ->
            SomePrice(IF value.c > 100 THEN value.c ELSE value.c * 100)
      [] OTHER -> NonePrice

\* Index (1-based) of the first outcome named yes/long/true, else the first.
Polymarket_yes_index(outcomes) ==
    LET hits == {i \in 1..Len(outcomes) :
                    Lower(outcomes[i]) \in {"yes", "long", "true"}}
    IN  IF hits = {} THEN 1 ELSE CHOOSE i \in hits : \A j \in hits : i <= j

Polymarket_extract_binary_prices(outcomes, prices) ==
    LET yes_index == Polymarket_yes_index(outcomes)
        no_index == 3 - yes_index
        yes == IF Len(prices) >= yes_index
               THEN Polymarket_normalize_price(prices[yes_index]) ELSE NonePrice
        no == IF Len(prices) >= no_index
              THEN Polymarket_normalize_price(prices[no_index]) ELSE NonePrice
    IN  IF ~yes.has /\ no.has THEN <<SomePrice(10000 - no.p), no>>
        ELSE IF ~no.has /\ yes.has THEN <<yes, SomePrice(10000 - yes.p)>>
        ELSE <<yes, no>>

Polymarket_normalize_market(raw) ==
    IF ~Polymarket_is_binary(raw.outcomes) THEN [tag |-> "none"]
    ELSE LET prices == Polymarket_extract_binary_prices(raw.outcomes,
                                                        raw.outcomePrices)
             resolution == Polymarket_parse_datetime(
                               OrTime(raw.endDate, raw.close_time))
             mid == OrStr(raw.id, raw.slug)
         IN  IF ~prices[1].has \/ ~prices[2].has THEN [tag |-> "none"]
             ELSE IF ~resolution.ok
                  THEN [tag |-> "raise", kind |-> resolution.kind]
             ELSE [tag |-> "market",
                   m |-> Market("polymarket",
                                IF mid = NoneStr THEN "None" ELSE mid,
                                resolution.val, prices[1].p, prices[2].p,
                                OrStr(raw.underlying, raw.slug), TRUE,
                                Polymarket_is_active(raw))]

\* The loop of fetch_active_markets over raw_markets.
RECURSIVE Polymarket_fetch_loop(_, _)
Polymarket_fetch_loop(raws, markets) ==
    IF raws = <<>> THEN Ok(markets)
    ELSE LET normalized == Polymarket_normalize_market(Head(raws))
         IN  IF normalized.tag = "raise" THEN Raise(normalized.kind)
             ELSE IF normalized.tag = "none"
                  THEN Polymarket_fetch_loop(Tail(raws), markets)
             ELSE IF ~normalized.m.is_active
                  THEN Polymarket_fetch_loop(Tail(raws), markets)
             ELSE Polymarket_fetch_loop(Tail(raws),
                                        Append(markets, normalized.m))

\* ------------------------------------------------------------------------
\* config.py
\* ------------------------------------------------------------------------

\* ArbitrageThresholds.max_resolution_delta = timedelta(days=1), in hours.
DefaultMaxResolutionDelta == 24

\* ArbitrageThresholds.min_edge_bps = 50.0
DefaultMinEdgeBps == 50

\* AppConfig.kalshi_api_key / polymarket_api_key: load_config() returns the
\* defaults, which are None.
ConfigKey(v) == NoneStr

\* ------------------------------------------------------------------------
\* kalshi_api.py / polymarket_api.py: credential check and _request_json
\* ------------------------------------------------------------------------

Kalshi_require_api_key(e) ==
    LET api_key == OrStr(e["kalshi"], ConfigKey("kalshi"))
    IN  IF ~TruthyStr(api_key) THEN Raise("config") ELSE Ok(api_key)

\* Variant: the key is looked up but its absence is not checked.
Polymarket_require_api_key_unchecked(e) ==
    Ok(OrStr(e["polymarket"], ConfigKey("polymarket")))

Polymarket_require_api_key(e) ==
    LET api_key == OrStr(e["polymarket"], ConfigKey("polymarket"))
    IN  IF ~TruthyStr(api_key) THEN Raise("config") ELSE Ok(api_key)

RequireApiKey(v, e) ==
    IF v = "kalshi" THEN Kalshi_require_api_key(e)
    ELSE Polymarket_require_api_key(e)

\* Variant: one attempt too many.
Kalshi_attempts_off_by_one == 3 + 1

\* `attempts = 3` of each _request_json.
Kalshi_attempts == 3
Polymarket_attempts == 3

AttemptsOf(v) == IF v = "kalshi" THEN Kalshi_attempts ELSE Polymarket_attempts

\* What client.get can produce: a response with a status code, or an
\* httpx.RequestError (timeout, connection reset) with no response.
HttpResponse(status) == [kind |-> "http", status |-> status]
RequestError == [kind |-> "request_error", status |-> 0]
NoResponseYet == [kind |-> "none", status |-> 0]
Responses == {HttpResponse(s) : s \in {200, 401, 403, 429, 500}} \cup {RequestError}

\* response.raise_for_status() passes for 2xx only.
IsSuccess(r) == r.kind = "http" /\ r.status >= 200 /\ r.status <= 299

\* The outcome of one iteration of the loop of _request_json: what ends the
\* iteration, and the time.sleep made during it (0: none).
LoopRaise(kind) == [act |-> "raise", kind |-> kind, sleep |-> 0]
LoopRetry(secs) == [act |-> "retry", kind |-> "none", sleep |-> secs]
LoopReturn == [act |-> "return", kind |-> "none", sleep |-> 0]

\* Variant: only 401 is taken for an authentication failure, 403 is retried
\* like any other HTTP error status.
Kalshi_request_json_403_retried(a, r) ==
    IF r.kind = "http" /\ r.status = 401 THEN LoopRaise("auth")
    ELSE IF r.kind = "http" /\ r.status = 429
         THEN IF a = Kalshi_attempts THEN LoopRaise("rate_limit")
              ELSE LoopRetry(a)
    ELSE IF IsSuccess(r) THEN LoopReturn
    ELSE IF a = Kalshi_attempts THEN LoopRaise("retries_exhausted")
    ELSE LoopRetry(a)

\* One iteration of the loop of kalshi_api._request_json, for loop variable
\* a and the result r of client.get.
Kalshi_request_json(a, r) ==
    IF r.kind = "http" /\ r.status \in {401, 403} THEN LoopRaise("auth")
    ELSE IF r.kind = "http" /\ r.status = 429
         THEN IF a = Kalshi_attempts THEN LoopRaise("rate_limit")
              ELSE LoopRetry(a)
    ELSE IF IsSuccess(r) THEN LoopReturn
    ELSE IF a = Kalshi_attempts THEN LoopRaise("retries_exhausted")
    ELSE LoopRetry(a)

\* Variant: a fixed backoff, time.sleep(1), instead of time.sleep(attempt).
Polymarket_request_json_fixed_sleep(a, r) ==
    IF r.kind = "http" /\ r.status \in {401, 403} THEN LoopRaise("auth")
    ELSE IF r.kind = "http" /\ r.status = 429
         THEN IF a = Polymarket_attempts THEN LoopRaise("rate_limit")
              ELSE LoopRetry(1)
    ELSE IF IsSuccess(r) THEN LoopReturn
    ELSE IF a = Polymarket_attempts THEN LoopRaise("retries_exhausted")
    ELSE LoopRetry(1)

\* One iteration of the loop of polymarket_api._request_json.
Polymarket_request_json(a, r) ==
    IF r.kind = "http" /\ r.status \in {401, 403} THEN LoopRaise("auth")
    ELSE IF r.kind = "http" /\ r.status = 429
         THEN IF a = Polymarket_attempts THEN LoopRaise("rate_limit")
              ELSE LoopRetry(a)
    ELSE IF IsSuccess(r) THEN LoopReturn
    ELSE IF a = Polymarket_attempts THEN LoopRaise("retries_exhausted")
    ELSE LoopRetry(a)

RequestJson(v, a, r) ==
    IF v = "kalshi" THEN Kalshi_request_json(a, r)
    ELSE Polymarket_request_json(a, r)

FetchLoop(v, raws) ==
    IF v = "kalshi" THEN Kalshi_fetch_loop(raws, <<>>)
    ELSE Polymarket_fetch_loop(raws, <<>>)

\* ------------------------------------------------------------------------
\* filters.py
\* ------------------------------------------------------------------------

\* Variant: a difference equal to the delta is dropped (`>=` for `>`).
PrefilterKeeps_strict(k, p, delta) ==
    IF Abs(k.resolution_time - p.resolution_time) >= delta THEN FALSE
    ELSE IF TruthyStr(k.underlying_entity) /\ TruthyStr(p.underlying_entity)
            /\ Lower(k.underlying_entity) # Lower(p.underlying_entity)
         THEN FALSE
    ELSE TRUE

\* The body of the inner loop of prefilter_markets: is (k, p) appended?
PrefilterKeeps(k, p, delta) ==
    IF Abs(k.resolution_time - p.resolution_time) > delta THEN FALSE
    ELSE IF TruthyStr(k.underlying_entity) /\ TruthyStr(p.underlying_entity)
            /\ Lower(k.underlying_entity) # Lower(p.underlying_entity)
         THEN FALSE
    ELSE TRUE

RECURSIVE PrefilterInner(_, _, _, _)
PrefilterInner(k, ps, delta, pairs) ==
    IF ps = <<>> THEN pairs
    ELSE PrefilterInner(k, Tail(ps), delta,
                        IF PrefilterKeeps(k, Head(ps), delta)
                        THEN Append(pairs, MarketPair(k, Head(ps)))
                        ELSE pairs)

RECURSIVE PrefilterOuter(_, _, _, _)
PrefilterOuter(ks, ps, delta, pairs) ==
    IF ks = <<>> THEN pairs
    ELSE PrefilterOuter(Tail(ks), ps, delta,
                        PrefilterInner(Head(ks), ps, delta, pairs))

BinaryActive(m) == m.is_binary /\ m.is_active

\* Variant: the loops are nested the other way round (Polymarket outside).
prefilter_markets_poly_outer(ks, ps, delta) ==
    LET swapped == PrefilterOuter(SelectSeq(ps, BinaryActive),
                                  SelectSeq(ks, BinaryActive), delta, <<>>)
    IN  [n \in 1..Len(swapped) |->
            MarketPair(swapped[n].polymarket_market, swapped[n].kalshi_market)]

prefilter_markets(ks, ps, delta) ==
    PrefilterOuter(SelectSeq(ks, BinaryActive), SelectSeq(ps, BinaryActive),
                   delta, <<>>)

ResolutionIssue == "Resolution times differ beyond allowed threshold."
LLMIssue == "LLM did not confirm same event/outcome semantics."

\* Variant: one confirmed flag is enough (`or` for `and`).
ValidateOne_either_flag(pair, llm_match, delta) ==
    LET far == Abs(pair.kalshi_market.resolution_time
                   - pair.polymarket_market.resolution_time) > delta
        issues1 == IF far THEN <<ResolutionIssue>> ELSE <<>>
        passed1 == IF far THEN FALSE ELSE TRUE
        unconfirmed == ~(llm_match.same_event \/ llm_match.same_outcome_semantics)
        issues2 == IF unconfirmed THEN Append(issues1, LLMIssue) ELSE issues1
        passed2 == IF unconfirmed THEN FALSE ELSE passed1
    IN  ValidatedMatch(pair, llm_match, passed2, issues2)

\* Variant: the matcher issue is put before the resolution issue.
ValidateOne_issues_swapped(pair, llm_match, delta) ==
    LET far == Abs(pair.kalshi_market.resolution_time
                   - pair.polymarket_market.resolution_time) > delta
        unconfirmed == ~(llm_match.same_event /\ llm_match.same_outcome_semantics)
        issues1 == IF unconfirmed THEN <<LLMIssue>> ELSE <<>>
        issues2 == IF far THEN Append(issues1, ResolutionIssue) ELSE issues1
    IN  ValidatedMatch(pair, llm_match, ~far /\ ~unconfirmed, issues2)

\* The body of the loop of validate_matches.
ValidateOne(pair, llm_match, delta) ==
    LET far == Abs(pair.kalshi_market.resolution_time
                   - pair.polymarket_market.resolution_time) > delta
        issues1 == IF far THEN <<ResolutionIssue>> ELSE <<>>
        passed1 == IF far THEN FALSE ELSE TRUE
        unconfirmed == ~(llm_match.same_event /\ llm_match.same_outcome_semantics)
        issues2 == IF unconfirmed THEN Append(issues1, LLMIssue) ELSE issues1
        passed2 == IF unconfirmed THEN FALSE ELSE passed1
    IN  ValidatedMatch(pair, llm_match, passed2, issues2)

Min(a, b) == IF a < b THEN a ELSE b

\* Variant: the results are taken from the end of their list.
validate_matches_reversed(pairs, results, delta) ==
    [i \in 1..Min(Len(pairs), Len(results)) |->
        ValidateOne(pairs[i], results[Len(results) + 1 - i], delta)]

\* zip(pairs, llm_results) stops at the shorter input.
validate_matches(pairs, results, delta) ==
    [i \in 1..Min(Len(pairs), Len(results)) |->
        ValidateOne(pairs[i], results[i], delta)]

\* ------------------------------------------------------------------------
\* llm_client.py
\* ------------------------------------------------------------------------

DummyRisk == "LLM not implemented; this is a dummy result."

\* Variant: a stand-in that confirms every pair.
DummyLLMClient_evaluate_pairs_all_match(pairs) ==
    [i \in 1..Len(pairs) |-> LLMSemanticMatch(TRUE, TRUE, 0, <<DummyRisk>>)]

DummyLLMClient_evaluate_pairs(pairs) ==
    [i \in 1..Len(pairs) |-> LLMSemanticMatch(FALSE, FALSE, 0, <<DummyRisk>>)]

\* ------------------------------------------------------------------------
\* Python float (IEEE 754 binary64) arithmetic, as arb_math.py uses it
\* ------------------------------------------------------------------------

\* A natural number of any size is a sequence of digits in base LimbBase,
\* least significant first, without leading zeros; zero is <<>>.
LimbBits == 15
LimbBase == 32768

RECURSIVE Pow2(_)
Pow2(k) == IF k = 0 THEN 1 ELSE 2 * Pow2(k - 1)

RECURSIVE BigNorm(_)
BigNorm(x) ==
    IF x = <<>> THEN <<>>
    ELSE IF x[Len(x)] = 0 THEN BigNorm(SubSeq(x, 1, Len(x) - 1))
    ELSE x

RECURSIVE BigOfInt(_)
BigOfInt(n) ==
    IF n = 0 THEN <<>> ELSE <<n % LimbBase>> \o BigOfInt(n \div LimbBase)

\* x * c + carry, for c < 2^15.
RECURSIVE BigMulSmall(_, _, _)
BigMulSmall(x, c, carry) ==
    IF x = <<>> THEN BigOfInt(carry)
    ELSE LET t == Head(x) * c + carry
         IN  <<t % LimbBase>> \o BigMulSmall(Tail(x), c, t \div LimbBase)

\* Quotient and remainder of x by c, for c < 2^15.
RECURSIVE BigDivMod(_, _)
BigDivMod(x, c) ==
    IF x = <<>> THEN [q |-> <<>>, r |-> 0]
    ELSE LET hi == BigDivMod(Tail(x), c)
             t == hi.r * LimbBase + Head(x)
         IN  [q |-> BigNorm(<<t \div c>> \o hi.q), r |-> t % c]

RECURSIVE BigAdd(_, _, _)
BigAdd(x, y, carry) ==
    IF x = <<>> /\ y = <<>> THEN BigOfInt(carry)
    ELSE LET a == IF x = <<>> THEN 0 ELSE Head(x)
             b == IF y = <<>> THEN 0 ELSE Head(y)
             t == a + b + carry
         IN  <<t % LimbBase>>
             \o BigAdd(IF x = <<>> THEN <<>> ELSE Tail(x),
                       IF y = <<>> THEN <<>> ELSE Tail(y), t \div LimbBase)

\* x - y - borrow, for x >= y + borrow; the result may carry leading zeros.
RECURSIVE BigSubDigits(_, _, _)
BigSubDigits(x, y, borrow) ==
    IF x = <<>> THEN <<>>
    ELSE LET b == IF y = <<>> THEN 0 ELSE Head(y)
             t == Head(x) - b - borrow
         IN  <<IF t < 0 THEN t + LimbBase ELSE t>>
             \o BigSubDigits(Tail(x), IF y = <<>> THEN <<>> ELSE Tail(y),
                             IF t < 0 THEN 1 ELSE 0)

BigSub(x, y) == BigNorm(BigSubDigits(x, y, 0))

\* -1, 0 or 1 as x is below, equal to or above y.
RECURSIVE BigCmp(_, _)
BigCmp(x, y) ==
    IF Len(x) # Len(y) THEN (IF Len(x) < Len(y) THEN -1 ELSE 1)
    ELSE IF x = <<>> THEN 0
    ELSE IF x[Len(x)] # y[Len(y)] THEN (IF x[Len(x)] < y[Len(y)] THEN -1 ELSE 1)
    ELSE BigCmp(SubSeq(x, 1, Len(x) - 1), SubSeq(y, 1, Len(y) - 1))

\* x * 2^s and floor(x / 2^s).
BigShl(x, s) ==
    IF x = <<>> THEN <<>>
    ELSE [i \in 1..(s \div LimbBits) |-> 0] \o BigMulSmall(x, Pow2(s % LimbBits), 0)

BigShr(x, s) ==
    IF s \div LimbBits >= Len(x) THEN <<>>
    ELSE BigDivMod(SubSeq(x, s \div LimbBits + 1, Len(x)), Pow2(s % LimbBits)).q

RECURSIVE SmallBitLen(_)
SmallBitLen(n) == IF n = 0 THEN 0 ELSE 1 + SmallBitLen(n \div 2)

BigBitLen(x) ==
    IF x = <<>> THEN 0 ELSE LimbBits * (Len(x) - 1) + SmallBitLen(x[Len(x)])

BigIsOdd(x) == x # <<>> /\ x[1] % 2 = 1

\* A float is m * 2^e with m a natural number below 2^53 (the sign is never
\* needed: prices are compared through abs).
FloatMantissaBits == 53

\* Round x * 2^e, plus a positive amount below 2^e when inexact is true, to
\* the nearest float, ties to even.
FloatRound(x, e, inexact) ==
    LET s == BigBitLen(x) - FloatMantissaBits
    IN  IF s <= 0 THEN [m |-> x, e |-> e]
        ELSE LET q == BigShr(x, s)
                 half == BigIsOdd(BigShr(x, s - 1))
                 sticky == inexact \/ BigShl(BigShr(x, s - 1), s - 1) # x
                 up == half /\ (sticky \/ BigIsOdd(q))
             IN  [m |-> IF up THEN BigAdd(q, <<>>, 1) ELSE q, e |-> e + s]

\* The float nearest to n / d, for natural n and 0 < d < 2^15: what the
\* decimal literal or the division `price / 100` evaluates to.
FloatOfRatio(n, d) ==
    LET dm == BigDivMod(BigShl(BigOfInt(n), 90), d)
    IN  FloatRound(dm.q, -90, dm.r # 0)

\* The float a normalized price stands for: prices are kept in
\* ten-thousandths, and p stands for the float nearest to p / 10000, which
\* is what a decimal price or `price / 100` gives (a leg synthesized as
\* 1 - price may differ from it in the last bit).
FloatOfPrice(p) == FloatOfRatio(p, 10000)

FloatOfInt(n) == [m |-> BigOfInt(n), e |-> 0]

\* Both mantissas brought to the smaller exponent.
FloatAligned(a, b) ==
    LET e == IF a.e < b.e THEN a.e ELSE b.e
    IN  [x |-> BigShl(a.m, a.e - e), y |-> BigShl(b.m, b.e - e), e |-> e]

FloatCmp(a, b) == LET al == FloatAligned(a, b) IN BigCmp(al.x, al.y)

\* abs(a - b)
FloatAbsDiff(a, b) ==
    LET al == FloatAligned(a, b)
    IN  IF BigCmp(al.x, al.y) >= 0
        THEN FloatRound(BigSub(al.x, al.y), al.e, FALSE)
        ELSE FloatRound(BigSub(al.y, al.x), al.e, FALSE)

\* a * c for an integer c < 2^15
FloatMulInt(a, c) == FloatRound(BigMulSmall(a.m, c, 0), a.e, FALSE)

\* ------------------------------------------------------------------------
\* arb_math.py
\* ------------------------------------------------------------------------

\* edge = abs(k.yes_price - p.yes_price); edge_bps = edge * 10_000.0
EdgeBps(m) ==
    FloatMulInt(FloatAbsDiff(FloatOfPrice(m.pair.kalshi_market.yes_price),
                             FloatOfPrice(m.pair.polymarket_market.yes_price)),
                10000)

\* Variant: the validator's issues are put before the matcher's risks.
RECURSIVE compute_arbitrage_opportunities_issues_first(_, _)
compute_arbitrage_opportunities_issues_first(matches, threshold) ==
    IF matches = <<>> THEN <<>>
    ELSE LET match == Head(matches)
             rest == compute_arbitrage_opportunities_issues_first(Tail(matches),
                                                                  threshold)
         IN  IF ~match.validation_passed THEN rest
             ELSE IF FloatCmp(EdgeBps(match), FloatOfInt(threshold)) < 0 THEN rest
             ELSE <<ArbitrageOpportunity(match.pair, EdgeBps(match),
                        match.validation_issues \o match.llm_match.risks)>>
                  \o rest

RECURSIVE compute_arbitrage_opportunities(_, _)
compute_arbitrage_opportunities(matches, threshold) ==
    IF matches = <<>> THEN <<>>
    ELSE LET match == Head(matches)
             rest == compute_arbitrage_opportunities(Tail(matches), threshold)
         IN  IF ~match.validation_passed THEN rest
             ELSE IF FloatCmp(EdgeBps(match), FloatOfInt(threshold)) < 0 THEN rest
             ELSE <<ArbitrageOpportunity(match.pair, EdgeBps(match),
                        match.llm_match.risks \o match.validation_issues)>>
                  \o rest

\* ------------------------------------------------------------------------
\* Inputs of a pipeline run
\* ------------------------------------------------------------------------

Yes2 == <<"Yes", "No">>
Iso(t) == RawTime("iso", t)
Num(c) == RawPrice("num", c)

\* Raw Kalshi records a response may hold: two well-formed open binary
\* markets, one without any close time, one without prices, one closed.
KalshiSample ==
    { KalshiRaw("K1", "trading", NoneStr, NoneStr, Iso(100), NoTime,
                Num(4000), NoRawPrice, Num(5800), "binary", <<>>, "BTC"),
      KalshiRaw("K2", "Open", "false", NoneStr, Iso(150), NoTime,
                Num(70), NoRawPrice, NoRawPrice, NoneStr, Yes2, NoneStr),
      KalshiRaw("K3", "trading", NoneStr, NoneStr, NoTime, NoTime,
                Num(4000), NoRawPrice, Num(5800), "binary", <<>>, "BTC"),
      KalshiRaw("K4", "trading", NoneStr, NoneStr, Iso(100), NoTime,
                NoRawPrice, NoRawPrice, NoRawPrice, "binary", <<>>, "BTC"),
      KalshiRaw("K5", "closed", NoneStr, NoneStr, Iso(100), NoTime,
                Num(4000), NoRawPrice, Num(5800), "binary", <<>>, "BTC") }

\* Raw Polymarket records: two well-formed active binary markets, one
\* without any end date, one with three outcomes, one closed.
PolySample ==
    { PolyRaw("P1", NoneStr, NoneStr, NoneStr, "true", Yes2,
              <<Num(55), Num(45)>>, Iso(124), NoTime, "btc"),
      PolyRaw("P2", "false", "false", "open", NoneStr, <<"No", "Yes">>,
              <<Num(60), Num(40)>>, Iso(100), NoTime, NoneStr),
      PolyRaw("P3", NoneStr, NoneStr, NoneStr, "true", Yes2,
              <<Num(55), Num(45)>>, NoTime, NoTime, "btc"),
      PolyRaw("P4", NoneStr, NoneStr, NoneStr, "true", <<"A", "B", "C">>,
              <<Num(55), Num(45)>>, Iso(124), NoTime, "btc"),
      PolyRaw("P5", NoneStr, "true", NoneStr, "true", Yes2,
              <<Num(55), Num(45)>>, Iso(124), NoTime, "btc") }

Sample(v) == IF v = "kalshi" THEN KalshiSample ELSE PolySample

\* The raw_markets a 200 response may carry.
Bodies(v) == SeqUpTo(Sample(v), MaxRecords)

\* Values of <VENUE>_API_KEY: unset, set to the empty string, set to a key.
EnvValues == {NoneStr, "", "secret"}

NoError == [venue |-> "none", kind |-> "none"]

\* ------------------------------------------------------------------------
\* run_pipeline as a state machine
\* ------------------------------------------------------------------------

KeyPc(v) == IF v = "kalshi" THEN "k_key" ELSE "p_key"
RequestPc(v) == IF v = "kalshi" THEN "k_request" ELSE "p_request"
NormalizePc(v) == IF v = "kalshi" THEN "k_normalize" ELSE "p_normalize"
\* Variant: prefiltering follows the Kalshi fetch directly.
AfterFetchPc_skips_polymarket(v) == "prefilter"

AfterFetchPc(v) == IF v = "kalshi" THEN "p_key" ELSE "prefilter"
FetchName(v) ==
    IF v = "kalshi" THEN "fetch_open_binary_markets" ELSE "fetch_active_markets"

Fresh ==
    /\ attempt = [v \in Venues |-> 0]
    /\ requests = [v \in Venues |-> 0]
    /\ sleeps = [v \in Venues |-> <<>>]
    /\ n429 = [v \in Venues |-> 0]
    /\ last = [v \in Venues |-> NoResponseYet]
    /\ resp = <<>>
    /\ kalshi_markets = <<>>
    /\ polymarket_markets = <<>>
    /\ candidate_pairs = <<>>
    /\ llm_results = <<>>
    /\ validated = <<>>
    /\ opportunities = <<>>
    /\ error = NoError
    /\ stages = <<>>

\* The state when run_pipeline is entered: load_config() gives the default
\* thresholds, the environment holds any combination of keys.
Init ==
    /\ pc = "k_key"
    /\ env \in [Venues -> EnvValues]
    /\ max_resolution_delta = DefaultMaxResolutionDelta
    /\ min_edge_bps = DefaultMinEdgeBps
    /\ Fresh

\* Variant: the failure of a fetch is swallowed and the run goes on as if
\* the venue had returned no market.
Fail_swallowed(v, kind) ==
    /\ pc' = AfterFetchPc(v)
    /\ error' = [venue |-> v, kind |-> kind]

\* An exception raised inside fetch_*_markets: run_pipeline has no handler,
\* so it leaves run_pipeline.
Fail(v, kind) ==
    /\ pc' = "failed"
    /\ error' = [venue |-> v, kind |-> kind]

\* fetch_*_markets is entered and calls _require_api_key.
KeyCheck(v) ==
    /\ pc = KeyPc(v)
    /\ stages' = Append(stages, FetchName(v))
    /\ IF RequireApiKey(v, env).ok
       THEN /\ pc' = RequestPc(v)
            /\ attempt' = [attempt EXCEPT ![v] = 1]
            /\ UNCHANGED error
       ELSE /\ Fail(v, RequireApiKey(v, env).kind)
            /\ UNCHANGED attempt
    /\ UNCHANGED <<env, requests, sleeps, n429, last, resp, kalshi_markets,
                   polymarket_markets, candidate_pairs, llm_results, validated,
                   opportunities, max_resolution_delta, min_edge_bps>>

\* One iteration of the loop of _request_json: client.get, the handling of
\* its result and, on a retry, the time.sleep that ends the iteration.
Attempt(v) ==
    /\ pc = RequestPc(v)
    /\ \E r \in Responses :
         LET o == RequestJson(v, attempt[v], r)
         IN  /\ requests' = [requests EXCEPT ![v] = @ + 1]
             /\ last' = [last EXCEPT ![v] = r]
             /\ n429' = [n429 EXCEPT ![v] =
                            IF r.kind = "http" /\ r.status = 429 THEN @ + 1 ELSE @]
             /\ sleeps' = [sleeps EXCEPT ![v] =
                              IF o.sleep > 0 THEN Append(@, o.sleep) ELSE @]
             /\ attempt' = [attempt EXCEPT ![v] =
                               IF o.act = "retry" THEN @ + 1 ELSE @]
             /\ IF o.act = "raise"
                THEN Fail(v, o.kind) /\ UNCHANGED resp
                ELSE IF o.act = "return"
                THEN /\ \E body \in Bodies(v) : resp' = body
                     /\ pc' = NormalizePc(v)
                     /\ UNCHANGED error
                ELSE IF attempt[v] >= AttemptsOf(v)
                THEN Fail(v, "unexpected") /\ UNCHANGED resp
                ELSE UNCHANGED <<pc, error, resp>>
    /\ UNCHANGED <<env, kalshi_markets, polymarket_markets, candidate_pairs,
                   llm_results, validated, opportunities, stages,
                   max_resolution_delta, min_edge_bps>>

\* The loop of fetch_*_markets over raw_markets, and its return.
Normalize(v) ==
    /\ pc = NormalizePc(v)
    /\ LET got == FetchLoop(v, resp)
       IN  IF got.ok
           THEN /\ pc' = AfterFetchPc(v)
                /\ IF v = "kalshi"
                   THEN kalshi_markets' = got.val /\ UNCHANGED polymarket_markets
                   ELSE polymarket_markets' = got.val /\ UNCHANGED kalshi_markets
                /\ UNCHANGED error
           ELSE /\ Fail(v, got.kind)
                /\ UNCHANGED <<kalshi_markets, polymarket_markets>>
    /\ resp' = <<>>
    /\ UNCHANGED <<env, attempt, requests, sleeps, n429, last, candidate_pairs,
                   llm_results, validated, opportunities, stages,
                   max_resolution_delta, min_edge_bps>>

KalshiKeyCheck == KeyCheck("kalshi")
KalshiAttempt == Attempt("kalshi")
KalshiNormalize == Normalize("kalshi")
PolymarketKeyCheck == KeyCheck("polymarket")
PolymarketAttempt == Attempt("polymarket")
PolymarketNormalize == Normalize("polymarket")

Prefilter ==
    /\ pc = "prefilter"
    /\ candidate_pairs' = prefilter_markets(kalshi_markets, polymarket_markets,
                                            max_resolution_delta)
    /\ stages' = Append(stages, "prefilter_markets")
    /\ pc' = "llm"
    /\ UNCHANGED <<env, attempt, requests, sleeps, n429, last, resp,
                   kalshi_markets, polymarket_markets, llm_results, validated,
                   opportunities, error, max_resolution_delta, min_edge_bps>>

\* What run_pipeline hands to evaluate_pairs: the candidate pairs
\* themselves, each holding its two Market objects whole.
MatcherInput(pairs) == pairs

Evaluate ==
    /\ pc = "llm"
    /\ llm_results' = DummyLLMClient_evaluate_pairs(MatcherInput(candidate_pairs))
    /\ stages' = Append(stages, "evaluate_pairs")
    /\ pc' = "validate"
    /\ UNCHANGED <<env, attempt, requests, sleeps, n429, last, resp,
                   kalshi_markets, polymarket_markets, candidate_pairs,
                   validated, opportunities, error, max_resolution_delta,
                   min_edge_bps>>

Validate ==
    /\ pc = "validate"
    /\ validated' = validate_matches(candidate_pairs, llm_results,
                                     max_resolution_delta)
    /\ stages' = Append(stages, "validate_matches")
    /\ pc' = "compute"
    /\ UNCHANGED <<env, attempt, requests, sleeps, n429, last, resp,
                   kalshi_markets, polymarket_markets, candidate_pairs,
                   llm_results, opportunities, error, max_resolution_delta,
                   min_edge_bps>>

Compute ==
    /\ pc = "compute"
    /\ opportunities' = compute_arbitrage_opportunities(validated, min_edge_bps)
    /\ stages' = Append(stages, "compute_arbitrage_opportunities")
    /\ pc' = "done"
    /\ UNCHANGED <<env, attempt, requests, sleeps, n429, last, resp,
                   kalshi_markets, polymarket_markets, candidate_pairs,
                   llm_results, validated, error, max_resolution_delta,
                   min_edge_bps>>

Next ==
    \/ KalshiKeyCheck
    \/ KalshiAttempt
    \/ KalshiNormalize
    \/ PolymarketKeyCheck
    \/ PolymarketAttempt
    \/ PolymarketNormalize
    \/ Prefilter
    \/ Evaluate
    \/ Validate
    \/ Compute

Spec == Init /\ [][Next]_vars

\* ------------------------------------------------------------------------
\* Claims about the fetch layer and the orchestration (checked under Spec)
\* ------------------------------------------------------------------------

IsAuthFailure(r) == r.kind = "http" /\ r.status \in {401, 403}

KeyMissing(v) == ~TruthyStr(env[v]) /\ ~TruthyStr(ConfigKey(v))

Entered(v) == \E i \in 1..Len(stages) : stages[i] = FetchName(v)

\* C1: one call of _request_json makes at most 3 HTTP attempts whatever the
\* responses are; when all three attempts get a 429 the call has failed with
\* the venue's rate-limit error after exactly 3 attempts and the run has
\* produced no opportunities.
C1_AtMostThreeAttempts ==
    \A v \in Venues :
        /\ requests[v] <= 3
        /\ n429[v] = 3 =>
              /\ pc = "failed"
              /\ error = [venue |-> v, kind |-> "rate_limit"]
              /\ requests[v] = 3
              /\ opportunities = <<>>

C1_Witness ==
    /\ n429["polymarket"] = 3
    /\ requests["polymarket"] = 3
    /\ pc = "failed"

\* C2: a 401 or 403 response, at whichever attempt it arrives, ends the call
\* at once with the venue's authentication error: the run has failed, and no
\* sleep followed that attempt (every sleep made precedes it).
C2_AuthNeverRetried ==
    \A v \in Venues :
        IsAuthFailure(last[v]) =>
            /\ pc = "failed"
            /\ error = [venue |-> v, kind |-> "auth"]
            /\ Len(sleeps[v]) = requests[v] - 1

C2_Witness ==
    /\ last["kalshi"] = HttpResponse(403)
    /\ requests["kalshi"] = 3
    /\ error = [venue |-> "kalshi", kind |-> "auth"]

\* C3: once a venue's fetch has been entered with its credential missing from
\* both the environment and the config, the run has failed with that venue's
\* configuration error, no request was issued, no sleep was made, and the
\* fetch was entered only once.
C3_MissingKeyFailsFast ==
    \A v \in Venues :
        (Entered(v) /\ KeyMissing(v)) =>
            /\ pc = "failed"
            /\ error = [venue |-> v, kind |-> "config"]
            /\ requests[v] = 0
            /\ sleeps[v] = <<>>
            /\ Cardinality({i \in 1..Len(stages) : stages[i] = FetchName(v)}) = 1

C3_Witness ==
    /\ Entered("polymarket")
    /\ KeyMissing("polymarket")
    /\ env["polymarket"] = NoneStr
    /\ kalshi_markets # <<>>

\* C4: the k-th sleep of a call lasts k time units and there are at most two;
\* while the loop is running every attempt made so far was followed by its
\* sleep, and once the call has ended the last attempt was not: nothing is
\* slept before the first attempt or after the final one.
C4_Backoff ==
    \A v \in Venues :
        /\ Len(sleeps[v]) <= 2
        /\ \A k \in 1..Len(sleeps[v]) : sleeps[v][k] = k
        /\ pc = RequestPc(v) => Len(sleeps[v]) = requests[v]
        /\ (pc # RequestPc(v) /\ requests[v] > 0) =>
               Len(sleeps[v]) = requests[v] - 1

C4_Witness ==
    /\ sleeps["polymarket"] = <<1, 2>>
    /\ requests["polymarket"] = 3
    /\ pc = "failed"
    /\ sleeps["kalshi"] = <<1>>

\* A Source Client has failed: its credential was missing when its fetch was
\* entered, or it met an authentication failure, or its third attempt failed.
ClientFailed(v) ==
    \/ Entered(v) /\ KeyMissing(v)
    \/ IsAuthFailure(last[v])
    \/ requests[v] = 3 /\ ~IsSuccess(last[v])

\* C5: when a Source Client has failed the run has aborted with that client's
\* error; no later stage has run and no opportunity exists.
C5_FailureAbortsRun ==
    \A v \in Venues :
        ClientFailed(v) =>
            /\ pc = "failed"
            /\ error.venue = v
            /\ error.kind \in {"config", "auth", "rate_limit", "retries_exhausted"}
            /\ \A i \in 1..Len(stages) :
                   stages[i] \in {FetchName(w) : w \in Venues}
            /\ candidate_pairs = <<>>
            /\ llm_results = <<>>
            /\ validated = <<>>
            /\ opportunities = <<>>

C5_Witness ==
    /\ ClientFailed("polymarket")
    /\ error = [venue |-> "polymarket", kind |-> "retries_exhausted"]
    /\ Len(kalshi_markets) = 2
    /\ polymarket_markets = <<>>

\* ------------------------------------------------------------------------
\* Normalization of arbitrary raw records (SpecNormalize)
\* ------------------------------------------------------------------------

\* Raw datetime values: absent, epoch 0, an epoch, an ISO string, an
\* unparsable string, the empty string, a value of another type.
RawTimes ==
    { NoTime, RawTime("num", 0), RawTime("num", 100), Iso(100),
      RawTime("bad", 0), RawTime("empty", 0), RawTime("other", 0) }

\* Raw price values: absent, 0, 0.4, 1, 1.5, 40, 100, 150, not a number.
RawPrices ==
    { NoRawPrice, Num(0), Num(40), Num(100), Num(150), Num(4000), Num(10000),
      Num(15000), RawPrice("bad", 0) }

\* (type, outcomes) of a raw Kalshi record.
KalshiShapes ==
    { <<"binary", <<>>>>, <<"Binary", <<"A", "B", "C">>>>, <<NoneStr, Yes2>>,
      <<NoneStr, <<>>>>, <<"scalar", <<"A", "B", "C">>>> }

Statuses ==
    { NoneStr, "", "trading", "Trading", "open", "OPEN", "active", "live",
      "closed" }

Tri == {NoneStr, "true", "false"}

\* Kalshi records whose datetime, price and shape fields vary, and records
\* whose status fields vary.
KalshiRawAll ==
    { KalshiRaw("K", "trading", NoneStr, NoneStr, ct, ed, yb, yp, nb,
                sh[1], sh[2], "BTC") :
        ct \in RawTimes, ed \in {NoTime, Iso(200)}, yb \in RawPrices,
        yp \in {NoRawPrice, Num(55)},
        nb \in {NoRawPrice, Num(0), Num(60), Num(15000)},
        sh \in KalshiShapes }
    \cup
    { KalshiRaw("K", st, res, act, Iso(100), NoTime, Num(4000), NoRawPrice,
                Num(5800), "binary", <<>>, "BTC") :
        st \in Statuses, res \in Tri, act \in Tri }

PolyOutcomes ==
    { Yes2, <<"No", "Yes">>, <<"Up", "Down">>, <<"Short", "Long">>, <<>>,
      <<"Yes">>, <<"A", "B", "C">> }

PolyPrices ==
    {<<>>} \cup {<<p>> : p \in RawPrices}
    \cup {<<p, q>> : p \in RawPrices, q \in {NoRawPrice, Num(45), Num(15000)}}

PolyRawAll ==
    { PolyRaw("P", NoneStr, NoneStr, NoneStr, "true", outs, prices, ed, ct,
              "btc") :
        outs \in PolyOutcomes, prices \in PolyPrices, ed \in RawTimes,
        ct \in {NoTime, Iso(200)} }
    \cup
    { PolyRaw("P", res, cl, st, act, Yes2, <<Num(55), Num(45)>>, Iso(124),
              NoTime, "btc") :
        res \in Tri, cl \in Tri, st \in Statuses, act \in Tri }

RawAll(v) == IF v = "kalshi" THEN KalshiRawAll ELSE PolyRawAll

\* The state in which a venue's 200 response, holding one record, is about
\* to be normalized (for Polymarket: after a Kalshi fetch that returned no
\* market).
InitNormalize ==
    /\ \E v \in Venues :
          /\ pc = NormalizePc(v)
          /\ \E raw \in RawAll(v) : resp = <<raw>>
          /\ attempt = [w \in Venues |-> IF w = "kalshi" \/ w = v THEN 1 ELSE 0]
          /\ requests = attempt
          /\ last = [w \in Venues |->
                        IF attempt[w] = 1 THEN HttpResponse(200) ELSE NoResponseYet]
          /\ stages = IF v = "kalshi" THEN <<FetchName("kalshi")>>
                      ELSE <<FetchName("kalshi"), FetchName("polymarket")>>
    /\ env = [v \in Venues |-> "secret"]
    /\ sleeps = [v \in Venues |-> <<>>]
    /\ n429 = [v \in Venues |-> 0]
    /\ kalshi_markets = <<>>
    /\ polymarket_markets = <<>>
    /\ candidate_pairs = <<>>
    /\ llm_results = <<>>
    /\ validated = <<>>
    /\ opportunities = <<>>
    /\ error = NoError
    /\ max_resolution_delta = DefaultMaxResolutionDelta
    /\ min_edge_bps = DefaultMinEdgeBps

NextNormalize ==
    \/ KalshiNormalize
    \/ PolymarketNormalize

SpecNormalize == InitNormalize /\ [][NextNormalize]_vars

FetchedMarkets(v) == IF v = "kalshi" THEN kalshi_markets ELSE polymarket_markets

\* The raw value a record's resolution time is read from.
RawResolution(v, raw) ==
    IF v = "kalshi" THEN OrTime(raw.close_time, raw.end_date)
    ELSE OrTime(raw.endDate, raw.close_time)

\* A record whose resolution time is missing or unparsable.
BadResolution(v, raw) == RawResolution(v, raw).kind \notin {"num", "iso"}

\* The records of a response that remain once those with a missing or
\* unparsable resolution time are skipped.
RECURSIVE SkipBadResolution(_, _)
SkipBadResolution(v, raws) ==
    IF raws = <<>> THEN <<>>
    ELSE IF BadResolution(v, Head(raws)) THEN SkipBadResolution(v, Tail(raws))
    ELSE <<Head(raws)>> \o SkipBadResolution(v, Tail(raws))

\* C6: a malformed record is skipped and the rest of the response is kept:
\* normalizing a response never aborts the run, and the markets returned are
\* those of the response without its malformed records.
C6_MalformedRecordSkipped ==
    [][\A v \in Venues :
          pc = NormalizePc(v) =>
              /\ pc' = AfterFetchPc(v)
              /\ error' = NoError
              /\ FetchedMarkets(v)' = FetchLoop(v, SkipBadResolution(v, resp)).val]_vars

InUnitRange(p) == 0 <= p /\ p <= 10000

PricesInRange(ms) ==
    \A i \in 1..Len(ms) : InUnitRange(ms[i].yes_price) /\ InUnitRange(ms[i].no_price)

\* C7: every Market a normalizer produces has yes_price and no_price within
\* [0, 1].
C7_PricesInUnitRange ==
    PricesInRange(kalshi_markets) /\ PricesInRange(polymarket_markets)

\* ------------------------------------------------------------------------
\* prefilter_markets on arbitrary market lists (SpecPrefilter)
\* ------------------------------------------------------------------------

\* Longest market list given to prefilter_markets.
MaxMarkets == 2

K1 == Market("kalshi", "k1", 100, 4000, 5800, "BTC", TRUE, TRUE)
K2 == Market("kalshi", "k2", 100, 7000, 3000, NoneStr, TRUE, TRUE)
K3 == Market("kalshi", "k3", 148, 4000, 6000, "ETH", TRUE, TRUE)
K4 == Market("kalshi", "k4", 100, 4000, 5800, "BTC", TRUE, FALSE)
K5 == Market("kalshi", "k5", 100, 4000, 5800, "BTC", FALSE, TRUE)

P1 == Market("polymarket", "p1", 124, 5500, 4500, "btc", TRUE, TRUE)
P2 == Market("polymarket", "p2", 125, 1000, 9000, NoneStr, TRUE, TRUE)
P3 == Market("polymarket", "p3", 100, 6950, 3000, "eth", TRUE, TRUE)
P4 == Market("polymarket", "p4", 124, 5500, 4500, "btc", TRUE, FALSE)
P5 == Market("polymarket", "p5", 148, 9900, 100, "Btc", TRUE, TRUE)

\* Markets given to prefilter_markets: open binary ones 0, 23, 24, 25 and
\* 48 hours apart, with matching, differing and undeclared entities, an
\* inactive one and a non-binary one.
KMarkets == {K1, K2, K3, K4, K5}

PMarkets == {P1, P2, P3, P4, P5}

\* max_resolution_delta values given to the filters, in hours.
Deltas == {0, DefaultMaxResolutionDelta}

\* No fetch is under way and no exception was raised.
FetchIdle ==
    /\ env = [v \in Venues |-> "secret"]
    /\ attempt = [v \in Venues |-> 0]
    /\ requests = [v \in Venues |-> 0]
    /\ sleeps = [v \in Venues |-> <<>>]
    /\ n429 = [v \in Venues |-> 0]
    /\ last = [v \in Venues |-> NoResponseYet]
    /\ resp = <<>>
    /\ error = NoError
    /\ stages = <<>>

\* prefilter_markets is about to be called on two lists of markets.
InitPrefilter ==
    /\ pc = "prefilter"
    /\ kalshi_markets \in SeqUpTo(KMarkets, MaxMarkets)
    /\ polymarket_markets \in SeqUpTo(PMarkets, MaxMarkets)
    /\ max_resolution_delta \in Deltas
    /\ min_edge_bps = DefaultMinEdgeBps
    /\ candidate_pairs = <<>>
    /\ llm_results = <<>>
    /\ validated = <<>>
    /\ opportunities = <<>>
    /\ FetchIdle

NextPrefilter ==
    \/ Prefilter
    \/ Evaluate
    \/ Validate
    \/ Compute

SpecPrefilter == InitPrefilter /\ [][NextPrefilter]_vars

PrefilterDone == pc \in {"llm", "validate", "compute", "done"}

TimeGap(k, p) == Abs(k.resolution_time - p.resolution_time)

Declares(m) == m.underlying_entity # NoneStr

\* The condition under which the (k, p) combination is to be paired.
ShouldPair(k, p) ==
    /\ k.is_binary /\ k.is_active
    /\ p.is_binary /\ p.is_active
    /\ TimeGap(k, p) <= max_resolution_delta
    /\ (Declares(k) /\ Declares(p)) =>
           Lower(k.underlying_entity) = Lower(p.underlying_entity)

IsCandidate(k, p) ==
    \E n \in 1..Len(candidate_pairs) : candidate_pairs[n] = MarketPair(k, p)

\* C8: prefilter_markets emits (k, p) exactly when both are binary and
\* active, their resolution times differ by at most the delta, and their
\* entities, when both are declared, are equal ignoring case; no emitted pair
\* is further apart than the delta.
C8_PrefilterIff ==
    PrefilterDone =>
        /\ \A i \in 1..Len(kalshi_markets) :
             \A j \in 1..Len(polymarket_markets) :
                IsCandidate(kalshi_markets[i], polymarket_markets[j])
                    <=> ShouldPair(kalshi_markets[i], polymarket_markets[j])
        /\ \A n \in 1..Len(candidate_pairs) :
             /\ TimeGap(candidate_pairs[n].kalshi_market,
                        candidate_pairs[n].polymarket_market)
                    <= max_resolution_delta
             /\ \E i \in 1..Len(kalshi_markets) :
                    candidate_pairs[n].kalshi_market = kalshi_markets[i]
             /\ \E j \in 1..Len(polymarket_markets) :
                    candidate_pairs[n].polymarket_market = polymarket_markets[j]

\* A pair exactly 24 hours apart is kept under a 24 hour delta while a
\* combination 48 hours apart and one with different entities are not.
C8_Witness ==
    /\ PrefilterDone
    /\ max_resolution_delta = 24
    /\ \E n \in 1..Len(candidate_pairs) :
          TimeGap(candidate_pairs[n].kalshi_market,
                  candidate_pairs[n].polymarket_market) = 24
    /\ \E i \in 1..Len(kalshi_markets) :
          \E j \in 1..Len(polymarket_markets) :
             /\ TimeGap(kalshi_markets[i], polymarket_markets[j]) = 48
             /\ BinaryActive(kalshi_markets[i])
             /\ BinaryActive(polymarket_markets[j])

\* The (Kalshi position, Polymarket position) combinations to be paired.
Kept ==
    { x \in (1..Len(kalshi_markets)) \X (1..Len(polymarket_markets)) :
        ShouldPair(kalshi_markets[x[1]], polymarket_markets[x[2]]) }

LexLess(x, y) == x[1] < y[1] \/ (x[1] = y[1] /\ x[2] < y[2])

\* The place of combination x among the kept ones, in lexicographic order.
Rank(x) == Cardinality({y \in Kept : LexLess(y, x)}) + 1

\* C9: the output holds one pair per kept combination of positions, in the
\* lexicographic order of (Kalshi position, Polymarket position).
C9_EncounterOrder ==
    PrefilterDone =>
        /\ Len(candidate_pairs) = Cardinality(Kept)
        /\ \A x \in Kept :
             candidate_pairs[Rank(x)] =
                 MarketPair(kalshi_markets[x[1]], polymarket_markets[x[2]])

\* Three pairs from two Kalshi and two Polymarket markets: the first two
\* share the first Kalshi market, the third holds the second one.
C9_Witness ==
    /\ PrefilterDone
    /\ Len(candidate_pairs) = 3
    /\ candidate_pairs[1].kalshi_market = candidate_pairs[2].kalshi_market
    /\ candidate_pairs[1].polymarket_market # candidate_pairs[2].polymarket_market
    /\ candidate_pairs[3].kalshi_market # candidate_pairs[1].kalshi_market

\* ------------------------------------------------------------------------
\* validate_matches and compute_arbitrage_opportunities on arbitrary
\* inputs (SpecValidate)
\* ------------------------------------------------------------------------

\* Longest list of pairs, and of match results, given to validate_matches.
MaxMatches == 2

\* A Polymarket market whose yes price is 0.20 below that of K2.
P6 == Market("polymarket", "p6", 100, 5000, 5000, NoneStr, TRUE, TRUE)

\* Pairs 24, 0, 25 and 48 hours apart; a pair need not come from
\* prefilter_markets.
PairSample ==
    { MarketPair(K1, P1), MarketPair(K2, P3),
      MarketPair(K1, P2),
      MarketPair(K1, P5),
      MarketPair(K2, P6) }

\* Match results; confidence is in hundredths.
MatchSample ==
    { LLMSemanticMatch(TRUE, TRUE, 100, <<"r1", "r2">>),
      LLMSemanticMatch(TRUE, TRUE, 0, <<>>),
      LLMSemanticMatch(TRUE, FALSE, 100, <<"r1">>),
      LLMSemanticMatch(FALSE, TRUE, 100, <<>>),
      LLMSemanticMatch(FALSE, FALSE, 0, <<DummyRisk>>) }

MinEdgeValues == {0, DefaultMinEdgeBps, 2000}

\* validate_matches is about to be called on a list of pairs and a list of
\* match results, of any lengths.
InitValidate ==
    /\ pc = "validate"
    /\ candidate_pairs \in SeqUpTo(PairSample, MaxMatches)
    /\ llm_results \in SeqUpTo(MatchSample, MaxMatches)
    /\ max_resolution_delta = DefaultMaxResolutionDelta
    /\ min_edge_bps \in MinEdgeValues
    /\ kalshi_markets = <<>>
    /\ polymarket_markets = <<>>
    /\ validated = <<>>
    /\ opportunities = <<>>
    /\ FetchIdle

NextValidate ==
    \/ Validate
    \/ Compute

SpecValidate == InitValidate /\ [][NextValidate]_vars

ValidateDone == pc \in {"compute", "done"}

\* C10: validation_passed holds exactly when the pair's resolution times are
\* within the delta and the matcher set both same_event and
\* same_outcome_semantics; the confidence plays no part.
C10_ValidationIff ==
    ValidateDone =>
        /\ Len(validated) <= Len(candidate_pairs)
        /\ Len(validated) <= Len(llm_results)
        /\ \A i \in 1..Len(validated) :
             validated[i].validation_passed <=>
                 /\ TimeGap(candidate_pairs[i].kalshi_market,
                            candidate_pairs[i].polymarket_market)
                        <= max_resolution_delta
                 /\ llm_results[i].same_event
                 /\ llm_results[i].same_outcome_semantics

\* One result fails at confidence 1.0 because a flag is false, another fails
\* with both flags set because the pair is too far apart.
C10_Witness ==
    /\ ValidateDone
    /\ Len(validated) = 2
    /\ \E i \in 1..2 :
          /\ llm_results[i].confidence = 100
          /\ ~llm_results[i].same_outcome_semantics
          /\ ~validated[i].validation_passed
    /\ \E i \in 1..2 :
          /\ llm_results[i].same_event /\ llm_results[i].same_outcome_semantics
          /\ TimeGap(candidate_pairs[i].kalshi_market,
                     candidate_pairs[i].polymarket_market) > max_resolution_delta
          /\ ~validated[i].validation_passed

\* The edge in basis points in exact arithmetic: prices are in
\* ten-thousandths, so it is the difference of the two yes prices.
ExactEdgeBps(m) ==
    Abs(m.pair.kalshi_market.yes_price - m.pair.polymarket_market.yes_price)

\* The validated matches that pass and whose exact edge reaches the
\* threshold, in input order.
RECURSIVE ShouldEmit(_, _)
ShouldEmit(matches, threshold) ==
    IF matches = <<>> THEN <<>>
    ELSE IF Head(matches).validation_passed
            /\ ExactEdgeBps(Head(matches)) >= threshold
         THEN <<Head(matches)>> \o ShouldEmit(Tail(matches), threshold)
         ELSE ShouldEmit(Tail(matches), threshold)

ComputeDone == pc = "done"

\* C11: the opportunities returned are, in input order, one for each
\* validated match that passed and whose edge |yes_k - yes_p| * 10000 is at
\* least min_edge_bps (equality included), each carrying exactly that edge;
\* prices 0.40 and 0.55 give an edge of 1500.
C11_EdgeThreshold ==
    ComputeDone =>
        LET expected == ShouldEmit(validated, min_edge_bps)
        IN  /\ Len(opportunities) = Len(expected)
            /\ \A i \in 1..Len(expected) :
                 /\ opportunities[i].pair = expected[i].pair
                 /\ FloatCmp(opportunities[i].edge_bps,
                             FloatOfInt(ExactEdgeBps(expected[i]))) = 0

\* ------------------------------------------------------------------------
\* compute_arbitrage_opportunities on arbitrary validated matches
\* (SpecCompute)
\* ------------------------------------------------------------------------

\* Longest list of validated matches given to
\* compute_arbitrage_opportunities.
MaxValidated == 2

\* Validated matches as any caller may build them: passing and failing,
\* with and without risks and issues.
ValidatedSample ==
    { ValidatedMatch(MarketPair(K1, P1),
                     LLMSemanticMatch(TRUE, TRUE, 100, <<"r1", "r2">>), TRUE, <<>>),
      ValidatedMatch(MarketPair(K1, P2),
                     LLMSemanticMatch(TRUE, TRUE, 0, <<"r1">>), TRUE,
                     <<ResolutionIssue, LLMIssue>>),
      ValidatedMatch(MarketPair(K2, P3),
                     LLMSemanticMatch(TRUE, TRUE, 100, <<>>), TRUE, <<LLMIssue>>),
      ValidatedMatch(MarketPair(K1, P5),
                     LLMSemanticMatch(FALSE, TRUE, 100, <<"r2">>), FALSE,
                     <<ResolutionIssue>>),
      ValidatedMatch(MarketPair(K2, P6),
                     LLMSemanticMatch(TRUE, TRUE, 100, <<"r2", "r1">>), TRUE, <<>>),
      ValidatedMatch(MarketPair(K1, P1),
                     LLMSemanticMatch(FALSE, FALSE, 0, <<DummyRisk>>), FALSE, <<>>) }

\* compute_arbitrage_opportunities is about to be called.
InitCompute ==
    /\ pc = "compute"
    /\ validated \in SeqUpTo(ValidatedSample, MaxValidated)
    /\ min_edge_bps \in MinEdgeValues
    /\ max_resolution_delta = DefaultMaxResolutionDelta
    /\ kalshi_markets = <<>>
    /\ polymarket_markets = <<>>
    /\ candidate_pairs = <<>>
    /\ llm_results = <<>>
    /\ opportunities = <<>>
    /\ FetchIdle

NextCompute == Compute

SpecCompute == InitCompute /\ [][NextCompute]_vars

\* Strictly increasing maps from the positions of one list into those of
\* another.
Increasing(n, m) ==
    {f \in [1..n -> 1..m] : \A i, j \in 1..n : i < j => f[i] < f[j]}

\* C12: each opportunity comes from a passing validated match, in input
\* order; its pair is that match's pair and its risks are the matcher's
\* risks followed by the validator's issues, each in its own order.
C12_RisksConcatenated ==
    ComputeDone =>
        \E f \in Increasing(Len(opportunities), Len(validated)) :
            \A i \in 1..Len(opportunities) :
                /\ validated[f[i]].validation_passed
                /\ opportunities[i].pair = validated[f[i]].pair
                /\ opportunities[i].risks =
                       validated[f[i]].llm_match.risks
                       \o validated[f[i]].validation_issues

\* Two opportunities; the first carries one matcher risk followed by two
\* validator issues.
C12_Witness ==
    /\ ComputeDone
    /\ Len(opportunities) = 2
    /\ opportunities[1].risks = <<"r1", ResolutionIssue, LLMIssue>>
    /\ opportunities[2].risks = <<"r1", "r2">>

\* ------------------------------------------------------------------------
\* Claims about the matcher boundary and the run as a whole (checked under
\* Spec)
\* ------------------------------------------------------------------------

MatcherCalled == \E i \in 1..Len(stages) : stages[i] = "evaluate_pairs"

PriceFields == {"yes_price", "no_price"}

\* C13: what the pipeline handed to evaluate_pairs holds no price field:
\* neither market of any pair given to the matcher has a yes_price or a
\* no_price.
C13_MatcherSeesNoPrices ==
    MatcherCalled =>
        \A i \in 1..Len(MatcherInput(candidate_pairs)) :
            LET p == MatcherInput(candidate_pairs)[i]
            IN  /\ PriceFields \cap DOMAIN p.kalshi_market = {}
                /\ PriceFields \cap DOMAIN p.polymarket_market = {}

\* ------------------------------------------------------------------------
\* Claims about status normalization and the fetched markets (checked under
\* SpecNormalize)
\* ------------------------------------------------------------------------

NormalizeMarket(v, raw) ==
    IF v = "kalshi" THEN Kalshi_normalize_market(raw)
    ELSE Polymarket_normalize_market(raw)

\* A record flagged resolved or closed.
FlaggedOver(v, raw) ==
    IF v = "kalshi" THEN TruthyTri(raw.is_resolved)
    ELSE TruthyTri(raw.resolved) \/ TruthyTri(raw.closed)

AcceptedStatuses == {"trading", "open", "active", "live"}

\* The stated rule: not flagged over, and the boolean `active` field when
\* present, otherwise the status string among the accepted ones.
StatedActive(v, raw) ==
    /\ ~FlaggedOver(v, raw)
    /\ IF raw.active \in {"true", "false"} THEN raw.active = "true"
       ELSE Lower(OrStr(raw.status, "")) \in AcceptedStatuses

\* C14: every record of a response that normalizes to a Market gets
\* is_active exactly by the stated rule, for both venues.
C14_StatusNormalization ==
    \A v \in Venues :
        pc = NormalizePc(v) =>
            \A i \in 1..Len(resp) :
                LET n == NormalizeMarket(v, resp[i])
                IN  n.tag = "market" => (n.m.is_active <=> StatedActive(v, resp[i]))

\* A record the loop keeps: it normalizes to a Market that is binary and
\* active.
KeptRecord(v, raw) ==
    LET n == NormalizeMarket(v, raw)
    IN  n.tag = "market" /\ n.m.is_binary /\ n.m.is_active

StageOrder ==
    << "fetch_open_binary_markets", "fetch_active_markets", "prefilter_markets",
       "evaluate_pairs", "validate_matches", "compute_arbitrage_opportunities" >>

StageStarted(name) == \E i \in 1..Len(stages) : stages[i] = name

\* The Polymarket client has done anything at all.
PolymarketTouched ==
    \/ Entered("polymarket")
    \/ attempt["polymarket"] > 0
    \/ requests["polymarket"] > 0
    \/ sleeps["polymarket"] # <<>>

\* fetch_open_binary_markets has returned its list.
KalshiReturned ==
    /\ pc \notin {"k_key", "k_request", "k_normalize"}
    /\ error.venue # "kalshi"

StepsInSequence ==
    /\ Len(stages) <= Len(StageOrder)
    /\ stages = SubSeq(StageOrder, 1, Len(stages))
    /\ PolymarketTouched => KalshiReturned
    /\ error.venue = "kalshi" => (pc = "failed" /\ ~PolymarketTouched)
    /\ error # NoError => (pc = "failed" /\ ~StageStarted("prefilter_markets"))

\* C16: the steps of a run start in the fixed order, each once; the
\* Polymarket client does nothing before the Kalshi fetch has returned and
\* nothing at all when it failed; a failed run takes no further step, so the
\* first error is the one raised; and once a step has started, what the
\* earlier steps produced no longer changes.
C16_StrictSequence ==
    [][/\ pc # "failed"
       /\ error = NoError
       /\ StepsInSequence'
       /\ PolymarketTouched =>
              UNCHANGED <<attempt["kalshi"], requests["kalshi"],
                          sleeps["kalshi"], kalshi_markets>>
       /\ StageStarted("prefilter_markets") =>
              UNCHANGED <<attempt, requests, sleeps, kalshi_markets,
                          polymarket_markets>>
       /\ StageStarted("evaluate_pairs") => UNCHANGED candidate_pairs
       /\ StageStarted("validate_matches") => UNCHANGED llm_results
       /\ StageStarted("compute_arbitrage_opportunities") => UNCHANGED validated
      ]_vars

\* A run that ended normally after the Kalshi fetch needed two backoffs and
\* the Polymarket fetch one.
C16_Witness ==
    /\ pc = "done"
    /\ stages = StageOrder
    /\ sleeps["kalshi"] = <<1, 2>>
    /\ sleeps["polymarket"] = <<1>>
    /\ candidate_pairs # <<>>

\* ------------------------------------------------------------------------
\* run_pipeline after the fetches, with the stand-in matcher, on any fetched
\* markets and any threshold (SpecDummy)
\* ------------------------------------------------------------------------

\* Longest list of markets a fetch returned.
MaxFetched == 2

\* Markets as the fetches return them: binary and active.
FetchedK == {K1, K2, K3}
FetchedP == {P1, P2, P6}

\* The two fetches have returned and the thresholds are any.
InitDummy ==
    /\ pc = "prefilter"
    /\ kalshi_markets \in SeqUpTo(FetchedK, MaxFetched)
    /\ polymarket_markets \in SeqUpTo(FetchedP, MaxFetched)
    /\ max_resolution_delta \in Deltas
    /\ min_edge_bps \in MinEdgeValues
    /\ candidate_pairs = <<>>
    /\ llm_results = <<>>
    /\ validated = <<>>
    /\ opportunities = <<>>
    /\ FetchIdle

NextDummy ==
    \/ Prefilter
    \/ Evaluate
    \/ Validate
    \/ Compute

SpecDummy == InitDummy /\ [][NextDummy]_vars

\* C17: with DummyLLMClient the matcher returns one result per candidate
\* pair, each with both flags false; the run never fails, can always go on
\* until it is done, and returns no opportunity, whatever the markets, their
\* prices and the threshold.
C17_DummyYieldsNothing ==
    /\ error = NoError
    /\ pc # "failed"
    /\ pc # "done" => ENABLED NextDummy
    /\ opportunities = <<>>
    /\ StageStarted("evaluate_pairs") =>
          /\ Len(llm_results) = Len(candidate_pairs)
          /\ \A i \in 1..Len(llm_results) :
                /\ ~llm_results[i].same_event
                /\ ~llm_results[i].same_outcome_semantics
    /\ StageStarted("validate_matches") =>
          /\ Len(validated) = Len(candidate_pairs)
          /\ \A i \in 1..Len(validated) : ~validated[i].validation_passed

\* A finished run with threshold 0 whose two candidate pairs are within the
\* delta and differ in yes price.
C17_Witness ==
    /\ pc = "done"
    /\ min_edge_bps = 0
    /\ Len(candidate_pairs) = 2
    /\ \A i \in 1..2 :
          candidate_pairs[i].kalshi_market.yes_price
              # candidate_pairs[i].polymarket_market.yes_price
    /\ opportunities = <<>>

\* ------------------------------------------------------------------------
\* Further claims about validate_matches (checked under SpecValidate)
\* ------------------------------------------------------------------------

\* The issues the two hard constraints call for, resolution first.
IssuesFor(pair, llm_match, delta) ==
    (IF TimeGap(pair.kalshi_market, pair.polymarket_market) > delta
     THEN <<ResolutionIssue>> ELSE <<>>)
    \o (IF llm_match.same_event /\ llm_match.same_outcome_semantics
        THEN <<>> ELSE <<LLMIssue>>)

\* C18: a validated match passes exactly when it has no issue; its issues
\* are the resolution issue when the delta is exceeded followed by the
\* matcher issue when the matcher did not confirm both flags, so 0, 1 or 2
\* of them; and every opportunity comes from a validated match and carries
\* that match's matcher risks and nothing else.
C18_PassedIffNoIssues ==
    /\ ValidateDone =>
          \A i \in 1..Len(validated) :
              /\ validated[i].validation_passed
                     <=> validated[i].validation_issues = <<>>
              /\ validated[i].validation_issues =
                     IssuesFor(candidate_pairs[i], llm_results[i],
                               max_resolution_delta)
              /\ Len(validated[i].validation_issues) \in 0..2
    /\ ComputeDone =>
          \E f \in Increasing(Len(opportunities), Len(validated)) :
              \A i \in 1..Len(opportunities) :
                  /\ opportunities[i].pair = validated[f[i]].pair
                  /\ opportunities[i].risks = validated[f[i]].llm_match.risks

\* A finished run in which one match carries both issues, resolution
\* first, and the other passed and gave an opportunity with the matcher's
\* two risks.
C18_Witness ==
    /\ ComputeDone
    /\ Len(validated) = 2
    /\ validated[1].validation_issues = <<ResolutionIssue, LLMIssue>>
    /\ validated[2].validation_passed
    /\ Len(opportunities) = 1
    /\ opportunities[1].risks = <<"r1", "r2">>

\* C19: validate_matches raises nothing and returns as many entries as the
\* shorter of its two inputs has; entry i holds pairs[i] and llm_results[i]
\* as given, and a surplus of pairs or of results adds no issue.
C19_PairwiseByIndex ==
    /\ error = NoError
    /\ pc # "failed"
    /\ pc = "validate" => ENABLED Validate
    /\ ValidateDone =>
          /\ Len(validated) = Min(Len(candidate_pairs), Len(llm_results))
          /\ \A i \in 1..Len(validated) :
                /\ validated[i].pair = candidate_pairs[i]
                /\ validated[i].llm_match = llm_results[i]
                /\ validated[i].validation_issues =
                       IssuesFor(candidate_pairs[i], llm_results[i],
                                 max_resolution_delta)

\* One passing entry came out of two pairs and one result, or of one pair
\* and two results.
C19_Witness ==
    /\ ValidateDone
    /\ Len(validated) = 1
    /\ Len(candidate_pairs) + Len(llm_results) = 3
    /\ validated[1].validation_passed

====
